---- MODULE Spec2Model ----
(***************************************************************************)
(* Transport layer of the braiins stack:                                   *)
(*   - DefaultBackoff and Client (open/protocols/wire/src/client.rs)       *)
(*   - V2Codec (open/protocols/stratum/src/v2/framing/codec.rs)            *)
(*                                                                         *)
(* Durations and instants are counted in ticks of one millisecond.         *)
(* Duration arithmetic in the code is exact, so the resolution of the tick *)
(* only scales the numbers.                                                *)
(***************************************************************************)
EXTENDS Integers, Sequences, FiniteSets, TLC

VARIABLES
    \* ---- a DefaultBackoff instance on its own
    backoff,          \* [current, prev, unit, max]
    outs,             \* values returned by next() since the last reset()
    resetAfter,       \* Some(k): the last reset() came after k calls of next(); None: no reset() yet
    panicked,         \* a call has panicked (arithmetic overflow, unwrap of None)
    overflow_checks,  \* the build profile: TRUE panics on integer overflow, FALSE wraps
    \* ---- a Client and the caller driving it
    client,           \* [addr, backoff, next_delay, retries, start_time]
    pc,               \* where the future of next() is: "idle", "delay", "connect"
    wake,             \* the deadline of the pending delay_for
    now,              \* the clock read by Instant::now()
    connectAt,        \* when the pending Connection::connect was started
    callAt,           \* when the call of next() that is pending, or that last returned an AttemptError, was started
    pre,              \* the Client as it was when the call of next() that is pending or was dropped was started
    last,             \* how the last call of next() ended
    streak,           \* the AttemptErrors returned since the last Connection
    begunAt,          \* callAt of the first call started since the last Connection (or new())
    lastFail,         \* the instant and next_attempt_in of the last failure, if it is the last outcome
    dropped,          \* a call of next() was dropped since the last Connection (or new())
    hadSuccess,       \* "no": no Connection yet; else whether the last one came "at once" or "after failures"
    connectTo,        \* the address the pending Connection::connect was given
    strategySince,    \* the length of the streak when the backoff strategy in use was installed
    setCalls,         \* the calls of set_addr and set_backoff so far
    \* ---- a V2Codec and the buffer it decodes from
    src,              \* the BytesMut read buffer
    state,            \* LengthDelimitedCodec's DecodeState
    decoded,          \* what decode returned, if decode was the last operation (else "idle")
    presrc,           \* src as it was when that decode was called
    stream,           \* every byte read into the buffer so far, in order
    yielded,          \* the frames decode has handed to the parser so far, in order
    \* ---- a V2Codec and the buffer it encodes into
    dst,              \* the BytesMut write buffer
    predst,           \* dst as it was when the last encode was called
    encoded           \* Some of the frame given to the last encode and what encode returned; None before

vars == <<backoff, outs, resetAfter, panicked, overflow_checks,
          client, pc, wake, now, connectAt, callAt, pre, last, streak,
          begunAt, lastFail, dropped, hadSuccess, connectTo, strategySince, setCalls,
          src, state, decoded, presrc, stream, yielded,
          dst, predst, encoded>>

backoffVars == <<backoff, outs, resetAfter>>
clientVars == <<client, pc, wake, now, connectAt, callAt, pre, last, streak,
                begunAt, lastFail, dropped, hadSuccess, connectTo, strategySince,
                setCalls>>
codecVars == <<src, state, decoded, presrc, stream, yielded, dst, predst, encoded>>
encodeVars == <<dst, predst, encoded>>

(***************************************************************************)
(* Bounds of the model.                                                    *)
(***************************************************************************)
\* calls of next() on one DefaultBackoff between two resets
MaxCalls == 50
\* the last instant of the clock
MaxTime == 400
\* the clock advances in steps of this many ticks
ClockStep == 100
\* failed attempts in one streak
MaxRetries == 5
\* calls of set_addr and set_backoff on one Client
MaxSets == 2
\* bytes held in the read buffer
MaxBuf == 6
\* bytes received on one Connection
MaxStream == 9
\* bytes held in the write buffer
MaxDst == 5
\* bytes of one outbound frame
MaxFrame == 2

(***************************************************************************)
(* Option<T>                                                               *)
(***************************************************************************)
None == <<>>
Some(x) == <<x>>
IsSome(o) == o # None
Unwrap(o) == o[1]

(***************************************************************************)
(* Numbers wider than TLC's 32-bit integers: <<hi, lo>> stands for         *)
(* hi * 2^16 + lo with 0 <= lo < 2^16.  A u32 has hi < 2^16 as well.       *)
(***************************************************************************)
Limb == 65536

Wide(n) == <<n \div Limb, n % Limb>>

Narrow(w) == w[1] * Limb + w[2]

WideAdd(a, b) ==
    LET lo == a[2] + b[2]
    IN  <<a[1] + b[1] + (lo \div Limb), lo % Limb>>

WideLess(a, b) == a[1] < b[1] \/ (a[1] = b[1] /\ a[2] < b[2])

WideMin(a, b) == IF WideLess(b, a) THEN b ELSE a

\* Duration * u32
DurationMul(d, c) ==
    LET lo == d[2] * c[2]
    IN  <<d[1] * c[1] * Limb + d[1] * c[2] + d[2] * c[1] + (lo \div Limb), lo % Limb>>

\* does the sum of two u32 fit in a u32
U32Fits(w) == w[1] < Limb

U32Wrap(w) == <<w[1] % Limb, w[2]>>

(***************************************************************************)
(* DefaultBackoff                                                          *)
(***************************************************************************)
DefaultUnit == 100
DefaultMax == 5000

\* fn reset(&mut self)
BackoffReset(b) == [b EXCEPT !.current = Wide(1), !.prev = Wide(0)]

BackoffNewNoReset(unit, max) ==
    [current |-> Wide(0), prev |-> Wide(0), unit |-> unit, max |-> max]

\* pub fn new(unit: Duration, max: Duration) -> Self
BackoffNew(unit, max) ==
    BackoffReset([current |-> Wide(0), prev |-> Wide(0), unit |-> unit, max |-> max])

\* fn default() -> Self
BackoffDefault == BackoffNew(Wide(DefaultUnit), Wide(DefaultMax))

\* fn next(&mut self) -> Duration: the value returned and the instance afterwards;
\* `current + prev` overflows a u32 by panicking (checks) or by wrapping
BackoffNext(b, checks) ==
    LET current == b.current
        res == DurationMul(b.unit, current)
    IN  IF ~WideLess(res, b.max)
        THEN [panic |-> FALSE, ret |-> b.max, self |-> b]
        ELSE LET prev == b.prev
                 sum == WideAdd(current, prev)
             IN  IF ~U32Fits(sum) /\ checks
                 THEN [panic |-> TRUE, ret |-> res, self |-> b]
                 ELSE [panic |-> FALSE, ret |-> res,
                       self |-> [b EXCEPT !.current = U32Wrap(sum), !.prev = current]]

(***************************************************************************)
(* Client                                                                  *)
(***************************************************************************)
\* AttemptError::new
AttemptError(next_attempt_in, retries, start_time) ==
    [next_attempt_in |-> next_attempt_in, retries |-> retries, start_time |-> start_time]

\* pub fn with_backoff(addr, backoff) -> Self
ClientWithBackoff(addr, b) ==
    [addr |-> addr, backoff |-> b, next_delay |-> None, retries |-> 0, start_time |-> None]

\* pub fn new(addr) -> Self
ClientNew(addr) == ClientWithBackoff(addr, BackoffDefault)

\* pub fn set_addr(&mut self, addr)
ClientSetAddr(c, addr) == [c EXCEPT !.addr = addr]

ClientSetBackoffClearsDelay(c, b) == [c EXCEPT !.backoff = b, !.next_delay = None]

\* pub fn set_backoff(&mut self, backoff)
ClientSetBackoff(c, b) == [c EXCEPT !.backoff = b]

InsertAlways(opt, v) == Some(v)

InsertNever(opt, v) == opt

\* Option::get_or_insert
GetOrInsert(opt, v) == IF opt = None THEN Some(v) ELSE opt

NextPrologueSleepsOn(c, t) ==
    LET taken == c.next_delay
        sleep == IF taken = None THEN 0
                 ELSE Narrow(Unwrap(taken)[2]) + (t - Unwrap(taken)[1])
    IN  [self |-> [c EXCEPT !.start_time = GetOrInsert(c.start_time, t),
                            !.next_delay = None],
         sleep |-> sleep]

\* Client::next up to its first await, entered at instant t: the Client
\* afterwards and the duration handed to delay_for (0: delay_for is not called)
NextPrologue(c, t) ==
    LET taken == c.next_delay
        sleep == IF taken = None THEN 0
                 ELSE LET when == Unwrap(taken)[1]
                          delay == Narrow(Unwrap(taken)[2])
                          since_last_attempt == t - when
                      IN  IF delay > since_last_attempt
                          THEN delay - since_last_attempt
                          ELSE 0
    IN  [self |-> [c EXCEPT !.start_time = GetOrInsert(c.start_time, t),
                            !.next_delay = None],
         sleep |-> sleep]

NextOkNoReset(c) == [c EXCEPT !.retries = 0, !.start_time = None]

NextOkKeepsStart(c) == [c EXCEPT !.backoff = BackoffReset(c.backoff), !.retries = 0]

\* Client::next, the arm Ok(conn)
NextOk(c) ==
    [c EXCEPT !.backoff = BackoffReset(c.backoff), !.retries = 0, !.start_time = None]

\* Client::next, the arm Err(err), reached at instant t: the Client afterwards,
\* the AttemptError returned, or a panic (backoff.next() or start_time.unwrap())
NextErr(c, t, checks) ==
    LET r == BackoffNext(c.backoff, checks)
        retries == c.retries + 1
    IN  IF r.panic
        THEN [panic |-> TRUE, self |-> [c EXCEPT !.backoff = r.self], err |-> None]
        ELSE LET c1 == [c EXCEPT !.backoff = r.self,
                                 !.next_delay = Some(<<t, r.ret>>),
                                 !.retries = retries]
             IN  IF c.start_time = None
                 THEN [panic |-> TRUE, self |-> c1, err |-> None]
                 ELSE [panic |-> FALSE, self |-> c1,
                       err |-> Some(AttemptError(r.ret, retries, Unwrap(c.start_time)))]

(***************************************************************************)
(* V2Codec: a LengthDelimitedCodec configured by V2Codec::default, and the *)
(* message parser applied to every frame it yields.                        *)
(***************************************************************************)
\* Header::SIZE
HeaderSize == 4
\* .length_field_offset(1)
LengthFieldOffset == 1
\* .length_field_length(3)
LengthFieldLength == 3
\* .num_skip(0)
NumSkip == 0
LengthAdjustmentNone == HeaderSize - HeaderSize

\* .length_adjustment(Header::SIZE as isize)
LengthAdjustment == HeaderSize
\* Builder::new() leaves max_frame_length at its default, 8 * 1024 * 1024
MaxFrameLen == 8388608

SubSeqFrom(s, n) == SubSeq(s, n + 1, Len(s))

\* the little-endian unsigned integer held in the bytes s
RECURSIVE UintLE(_)
UintLE(s) == IF s = <<>> THEN 0 ELSE s[1] + 256 * UintLE(Tail(s))

\* the length field of the head of the buffer
LengthField(buf) ==
    UintLE(SubSeq(buf, LengthFieldOffset + 1, LengthFieldOffset + LengthFieldLength))

\* LengthDelimitedCodec::decode_head: Ok(None), Err(frame too big) or Ok(Some(n));
\* with num_skip = 0 nothing is split off the buffer
DecodeHead(buf) ==
    LET head_len == LengthFieldOffset + LengthFieldLength
    IN  IF Len(buf) < head_len THEN [kind |-> "none", buf |-> buf]
        ELSE LET n == LengthField(buf)
             IN  IF n > MaxFrameLen THEN [kind |-> "error", buf |-> buf]
                 ELSE [kind |-> "some", n |-> n + LengthAdjustment,
                       buf |-> SubSeqFrom(buf, NumSkip)]

\* LengthDelimitedCodec::decode_data: None or the first n bytes, split off the buffer
DecodeData(n, buf) ==
    IF Len(buf) < n THEN [kind |-> "none", buf |-> buf]
    ELSE [kind |-> "some", data |-> SubSeq(buf, 1, n), buf |-> SubSeqFrom(buf, n)]

\* LengthDelimitedCodec::decode on DecodeState st (None: Head, Some(n): Data(n))
FrameDecodeKeepsData(st, buf) ==
    LET head == IF st = None THEN DecodeHead(buf)
                ELSE [kind |-> "some", n |-> Unwrap(st), buf |-> buf]
    IN  IF head.kind # "some"
        THEN [kind |-> head.kind, state |-> st, buf |-> head.buf]
        ELSE LET data == DecodeData(head.n, head.buf)
             IN  IF data.kind = "none"
                 THEN [kind |-> "none", state |-> Some(head.n), buf |-> data.buf]
                 ELSE [kind |-> "some", data |-> data.data, state |-> Some(head.n),
                       buf |-> data.buf]

FrameDecode(st, buf) ==
    LET head == IF st = None THEN DecodeHead(buf)
                ELSE [kind |-> "some", n |-> Unwrap(st), buf |-> buf]
    IN  IF head.kind # "some"
        THEN [kind |-> head.kind, state |-> st, buf |-> head.buf]
        ELSE LET data == DecodeData(head.n, head.buf)
             IN  IF data.kind = "none"
                 THEN [kind |-> "none", state |-> Some(head.n), buf |-> data.buf]
                 ELSE [kind |-> "some", data |-> data.data, state |-> None, buf |-> data.buf]

\* deserialize_message: the parser accepts the frame (parses) or rejects it
DeserializeMessage(bytes, parses) ==
    IF parses THEN [kind |-> "message", bytes |-> bytes]
    ELSE [kind |-> "parse error", bytes |-> bytes]

V2DecodeRestoring(st, buf, parses) ==
    LET r == FrameDecode(st, buf)
    IN  IF r.kind = "some"
        THEN [ret |-> DeserializeMessage(r.data, parses), state |-> r.state,
              buf |-> IF parses THEN r.buf ELSE buf]
        ELSE [ret |-> [kind |-> r.kind], state |-> r.state, buf |-> r.buf]

\* V2Codec::decode: what it returns, the codec's state and the buffer afterwards
V2Decode(st, buf, parses) ==
    LET r == FrameDecode(st, buf)
    IN  IF r.kind = "some"
        THEN [ret |-> DeserializeMessage(r.data, parses), state |-> r.state, buf |-> r.buf]
        ELSE [ret |-> [kind |-> r.kind], state |-> r.state, buf |-> r.buf]

V2EncodeOverwrites(item, buf) == [ret |-> "ok", buf |-> item]

\* V2Codec::encode: what it returns and the buffer afterwards
\* (extend_from_slice grows the buffer as needed)
V2Encode(item, buf) == [ret |-> "ok", buf |-> buf \o item]

(***************************************************************************)
(* A DefaultBackoff driven by any sequence of next() and reset().          *)
(***************************************************************************)
\* <<unit, max>> of the instances checked: the default, a cap reached early,
\* unit > max, unit = 0 with and without a cap, and a cap that the Fibonacci
\* numbers below 2^32 never reach
BackoffConfigs ==
    { <<Wide(DefaultUnit), Wide(DefaultMax)>>,
      <<Wide(1), Wide(3)>>,
      <<Wide(5), Wide(3)>>,
      <<Wide(0), Wide(0)>>,
      <<Wide(0), Wide(1)>>,
      <<Wide(1), <<2 * Limb, 0>>>> }

\* the server addresses a Client is given
Addrs == {"pool a", "pool b"}

IdleClient ==
    /\ client = ClientNew("pool a")
    /\ connectTo = None /\ strategySince = 0 /\ setCalls = 0
    /\ pc = "idle" /\ wake = 0 /\ now = 0 /\ connectAt = 0 /\ callAt = 0
    /\ pre = None /\ last = "none" /\ streak = <<>> /\ begunAt = None
    /\ lastFail = None /\ dropped = FALSE /\ hadSuccess = "no"

IdleBackoff ==
    /\ backoff = BackoffDefault /\ outs = <<>> /\ resetAfter = None

IdleCodec ==
    /\ src = <<>> /\ state = None /\ decoded = [kind |-> "idle"] /\ presrc = <<>>
    /\ stream = <<>> /\ yielded = <<>>
    /\ dst = <<>> /\ predst = <<>> /\ encoded = None

BackoffInit ==
    /\ \E c \in BackoffConfigs : backoff = BackoffNew(c[1], c[2])
    /\ outs = <<>>
    /\ resetAfter = None
    /\ panicked = FALSE
    /\ overflow_checks \in BOOLEAN
    /\ IdleClient
    /\ IdleCodec

\* backoff.next()
CallNext ==
    /\ ~panicked
    /\ Len(outs) < MaxCalls
    /\ LET r == BackoffNext(backoff, overflow_checks)
       IN  IF r.panic
           THEN /\ panicked' = TRUE
                /\ UNCHANGED <<backoff, outs>>
           ELSE /\ backoff' = r.self
                /\ outs' = Append(outs, r.ret)
                /\ UNCHANGED panicked
    /\ UNCHANGED <<resetAfter, overflow_checks, clientVars, codecVars>>

\* backoff.reset()
CallReset ==
    /\ ~panicked
    /\ backoff' = BackoffReset(backoff)
    /\ outs' = <<>>
    /\ resetAfter' = Some(Len(outs))
    /\ UNCHANGED <<panicked, overflow_checks, clientVars, codecVars>>

BackoffStep == CallNext \/ CallReset

BackoffSpec == BackoffInit /\ [][BackoffStep]_vars

(***************************************************************************)
(* Claims about DefaultBackoff                                             *)
(***************************************************************************)
\* <<F(k), F(k-1)>> of the Fibonacci sequence 1, 1, 2, 3, 5, ...
RECURSIVE FibPair(_)
FibPair(k) ==
    IF k = 1 THEN <<Wide(1), Wide(0)>>
    ELSE LET p == FibPair(k - 1) IN <<WideAdd(p[1], p[2]), p[1]>>

Fib(k) == FibPair(k)[1]

DefaultOutputs == <<100, 100, 200, 300, 500, 800, 1300, 2100, 3400, 5000, 5000, 5000>>

IsDefaultConfig == backoff.unit = Wide(100) /\ backoff.max = Wide(5000)

\* C6: the k-th next() since construction or the last reset() returns
\* min(unit * F(k), max), for every unit and max; with unit = 100 ms and
\* max = 5000 ms that is 100,100,200,300,500,800,1300,2100,3400,5000,5000,...
C6_FibonacciOutputs ==
    /\ ~panicked
    /\ \A k \in 1..Len(outs) :
          /\ outs[k] = WideMin(DurationMul(backoff.unit, Fib(k)), backoff.max)
          /\ IsDefaultConfig =>
                outs[k] = Wide(IF k <= Len(DefaultOutputs) THEN DefaultOutputs[k] ELSE 5000)

\* C7: reset() then next() returns what the first next() of a fresh instance
\* with the same unit and max returns, whatever was called before
C7_ResetRestoresFirst ==
    (resetAfter # None /\ Len(outs) >= 1)
        => outs[1] = BackoffNext(BackoffNew(backoff.unit, backoff.max), overflow_checks).ret

C7_Witness ==
    /\ resetAfter # None /\ Unwrap(resetAfter) >= 3
    /\ Len(outs) >= 1

\* C8: every output is <= max, the outputs since the last reset() never
\* decrease, and after an output of max every later output is max
C8_BoundedMonotone ==
    /\ \A k \in 1..Len(outs) : ~WideLess(backoff.max, outs[k])
    /\ \A k \in 1..(Len(outs) - 1) : ~WideLess(outs[k + 1], outs[k])
    /\ \A j, k \in 1..Len(outs) : (j < k /\ outs[j] = backoff.max) => outs[k] = backoff.max

\* the part of C8 that holds of every instance
C8_BoundedSticky ==
    /\ \A k \in 1..Len(outs) : ~WideLess(backoff.max, outs[k])
    /\ \A j, k \in 1..Len(outs) : (j < k /\ outs[j] = backoff.max) => outs[k] = backoff.max

\* C18: next() never overflows its u32 counters: whenever a call advances
\* them, current + prev is at most 2^32 - 1, for every unit and max and any
\* number of calls without reset
C18_CountersNeverOverflow ==
    /\ ~panicked
    /\ WideLess(DurationMul(backoff.unit, backoff.current), backoff.max)
          => U32Fits(WideAdd(backoff.current, backoff.prev))

(***************************************************************************)
(* A Client driven by one caller: next() is polled up to its first await,  *)
(* resumed when the timer or the connect completes, or dropped by the      *)
(* caller while it is suspended.  Connection::connect succeeds or fails as *)
(* the network decides.                                                    *)
(***************************************************************************)
\* <<unit, max>> of the backoff the Client is built with: Client::new and
\* Client::with_backoff with a cap that is reached within MaxRetries failures
ClientConfigs ==
    { <<Wide(DefaultUnit), Wide(DefaultMax)>>,
      <<Wide(DefaultUnit), Wide(3 * DefaultUnit)>> }

\* <<unit, max>> of the backoff given to set_backoff: its outputs 200, 200,
\* 300, 300, ... differ from those of every backoff a Client is built with
NewStrategies == { <<Wide(2 * DefaultUnit), Wide(3 * DefaultUnit)>> }

ClientInit ==
    /\ \E c \in ClientConfigs : client = ClientWithBackoff("pool a", BackoffNew(c[1], c[2]))
    /\ connectTo = None /\ strategySince = 0 /\ setCalls = 0
    /\ pc = "idle" /\ wake = 0 /\ now = 0 /\ connectAt = 0 /\ callAt = 0
    /\ pre = None /\ last = "none" /\ streak = <<>> /\ begunAt = None
    /\ lastFail = None /\ dropped = FALSE /\ hadSuccess = "no"
    /\ panicked = FALSE
    /\ overflow_checks \in BOOLEAN
    /\ IdleBackoff
    /\ IdleCodec

\* the clock advances
Tick ==
    /\ now + ClockStep <= MaxTime
    /\ now' = now + ClockStep
    /\ UNCHANGED <<client, pc, wake, connectAt, callAt, pre, last, streak,
                   begunAt, lastFail, dropped, hadSuccess, connectTo, strategySince,
                   panicked, overflow_checks, setCalls, backoffVars, codecVars>>

\* client.next() is called and polled: it runs to delay_for(..).await or to
\* Connection::connect(..).await
Call ==
    /\ pc = "idle"
    /\ ~panicked
    /\ LET p == NextPrologue(client, now)
       IN  /\ client' = p.self
           /\ IF p.sleep > 0
              THEN pc' = "delay" /\ wake' = now + p.sleep /\ connectAt' = 0
                   /\ connectTo' = None
              ELSE pc' = "connect" /\ wake' = 0 /\ connectAt' = now
                   /\ connectTo' = Some(p.self.addr)
    /\ pre' = Some(client)
    /\ callAt' = now
    /\ begunAt' = IF begunAt = None THEN Some(now) ELSE begunAt
    /\ last' = "pending"
    /\ UNCHANGED <<now, streak, lastFail, dropped, hadSuccess, strategySince,
                   panicked, overflow_checks, setCalls, backoffVars, codecVars>>

\* delay_for completes, no sooner than its deadline, and connect is started
Woken ==
    /\ pc = "delay"
    /\ now >= wake
    /\ pc' = "connect"
    /\ wake' = 0
    /\ connectAt' = now
    /\ connectTo' = Some(client.addr)
    /\ UNCHANGED <<client, now, callAt, pre, last, streak, begunAt, lastFail,
                   dropped, hadSuccess, strategySince, panicked, overflow_checks, setCalls, backoffVars, codecVars>>

\* the caller drops the future of next() while it is suspended in delay_for
AbandonDelay ==
    /\ pc = "delay"
    /\ pc' = "idle"
    /\ wake' = 0
    /\ last' = "abandoned in delay"
    /\ dropped' = TRUE
    /\ UNCHANGED <<client, now, connectAt, callAt, pre, streak, begunAt,
                   lastFail, hadSuccess, connectTo, strategySince,
                   panicked, overflow_checks, setCalls, backoffVars, codecVars>>

\* the caller drops the future of next() while it is suspended in connect
AbandonConnect ==
    /\ pc = "connect"
    /\ pc' = "idle"
    /\ connectAt' = 0
    /\ last' = "abandoned in connect"
    /\ dropped' = TRUE
    /\ connectTo' = None
    /\ UNCHANGED <<client, now, wake, callAt, pre, streak, begunAt,
                   lastFail, hadSuccess, strategySince,
                   panicked, overflow_checks, setCalls, backoffVars, codecVars>>

\* connect returns Ok(conn): next() returns the Connection
ConnectOk ==
    /\ pc = "connect"
    /\ client' = NextOk(client)
    /\ pc' = "idle"
    /\ connectAt' = 0
    /\ last' = "ok"
    /\ streak' = <<>>
    /\ begunAt' = None
    /\ lastFail' = None
    /\ dropped' = FALSE
    /\ hadSuccess' = IF streak = <<>> THEN "at once" ELSE "after failures"
    /\ callAt' = 0
    /\ pre' = None
    /\ connectTo' = None
    /\ strategySince' = 0
    /\ UNCHANGED <<now, wake, panicked, overflow_checks, setCalls, backoffVars, codecVars>>

\* connect returns Err(err): next() returns an AttemptError
ConnectErr ==
    /\ pc = "connect"
    /\ client.retries < MaxRetries
    /\ LET r == NextErr(client, now, overflow_checks)
       IN  /\ client' = r.self
           /\ IF r.panic
              THEN /\ panicked' = TRUE
                   /\ last' = "panic"
                   /\ UNCHANGED <<streak, lastFail>>
              ELSE /\ streak' = Append(streak, Unwrap(r.err))
                   /\ lastFail' = Some(<<now, Narrow(Unwrap(r.err).next_attempt_in)>>)
                   /\ last' = "err"
                   /\ UNCHANGED panicked
    /\ pc' = "idle"
    /\ connectAt' = 0
    /\ pre' = None
    /\ connectTo' = None
    /\ UNCHANGED <<now, wake, callAt, begunAt, dropped, hadSuccess, strategySince,
                   overflow_checks, setCalls, backoffVars, codecVars>>

\* client.set_addr(addr), between two calls of next()
SetAddr ==
    /\ pc = "idle"
    /\ ~panicked
    /\ setCalls < MaxSets
    /\ setCalls' = setCalls + 1
    /\ \E a \in Addrs : client' = ClientSetAddr(client, a)
    /\ UNCHANGED <<pc, wake, now, connectAt, callAt, pre, last, streak, begunAt,
                   lastFail, dropped, hadSuccess, connectTo, strategySince,
                   panicked, overflow_checks, backoffVars, codecVars>>

\* client.set_backoff(backoff) with a new instance, between two calls of next()
SetBackoff ==
    /\ pc = "idle"
    /\ ~panicked
    /\ setCalls < MaxSets
    /\ setCalls' = setCalls + 1
    /\ \E c \in NewStrategies : client' = ClientSetBackoff(client, BackoffNew(c[1], c[2]))
    /\ strategySince' = Len(streak)
    /\ UNCHANGED <<pc, wake, now, connectAt, callAt, pre, last, streak, begunAt,
                   lastFail, dropped, hadSuccess, connectTo,
                   panicked, overflow_checks, backoffVars, codecVars>>

ClientStep ==
    \/ SetAddr
    \/ SetBackoff
    \/ Tick
    \/ Call
    \/ Woken
    \/ AbandonDelay
    \/ AbandonConnect
    \/ ConnectOk
    \/ ConnectErr

ClientSpec == ClientInit /\ [][ClientStep]_vars

(***************************************************************************)
(* Claims about Client                                                     *)
(***************************************************************************)
\* C1: the n-th failure in a row (no Connection in between) returns
\* retries = n, and all failures of the streak return the same start_time
C1_StreakCounts ==
    \A n \in 1..Len(streak) :
        /\ streak[n].retries = n
        /\ streak[n].start_time = streak[1].start_time

C1_Witness == Len(streak) >= 3 /\ now > streak[1].start_time

\* C2: a call of next() dropped during the backoff wait leaves the Client
\* as it was before the call
C2_AbandonedWaitKeepsState ==
    last = "abandoned in delay" => client = Unwrap(pre)

\* C3: a connect attempt that follows a failed attempt starts no earlier
\* than that failure's instant plus its next_attempt_in
C3_NoEarlyConnect ==
    (pc = "connect" /\ lastFail # None)
        => connectAt >= Unwrap(lastFail)[1] + Unwrap(lastFail)[2]

ClientAllClear ==
    client.next_delay = None /\ client.retries = 0 /\ client.start_time = None

ClientAllSet ==
    client.next_delay # None /\ client.retries >= 1 /\ client.start_time # None

\* C5: between calls of next(), next_delay, retries and start_time are all
\* clear or all set; a failure sets all three and a Connection clears them
C5_FieldsTogether ==
    (pc = "idle" /\ ~panicked)
        => /\ ClientAllClear \/ ClientAllSet
           /\ last = "err" => ClientAllSet
           /\ last = "ok" => ClientAllClear

\* the instance after n calls of next() on b
RECURSIVE BackoffAfter(_, _, _)
BackoffAfter(b, n, checks) ==
    IF n = 0 THEN b ELSE BackoffNext(BackoffAfter(b, n - 1, checks), checks).self

FreshBackoff == BackoffNew(client.backoff.unit, client.backoff.max)

\* C9: the n-th failure of a streak reports the n-th output of the backoff
\* since its last reset: next() is called once per failure and at no other
\* point, reset() on every Connection (a backoff installed by set_backoff
\* after the first strategySince failures of the streak starts as new)
C9_DelayFollowsBackoff ==
    /\ \A n \in (strategySince + 1)..Len(streak) :
          streak[n].next_attempt_in
              = BackoffNext(BackoffAfter(FreshBackoff, n - 1 - strategySince, overflow_checks),
                            overflow_checks).ret
    /\ client.backoff = BackoffAfter(FreshBackoff, Len(streak) - strategySince, overflow_checks)

C9_Witness ==
    /\ hadSuccess = "after failures"
    /\ Len(streak) >= 2
    /\ pc = "delay"

\* what C14 says of one step of the Client
C14_Step ==
    /\ (SetAddr \/ SetBackoff)
          => /\ client'.retries = client.retries
             /\ client'.start_time = client.start_time
             /\ client'.next_delay = client.next_delay
             /\ streak' = streak
             /\ lastFail' = lastFail
    /\ pc' = "connect" => connectTo' = Some(client'.addr)
    /\ (strategySince' >= 1 /\ Len(streak') > strategySince')
          => streak'[strategySince' + 1].next_attempt_in
                = BackoffNext(BackoffNew(client'.backoff.unit, client'.backoff.max),
                              overflow_checks).ret

\* C14: set_addr and set_backoff between two calls of next() leave retries,
\* start_time, the pending delay and what the earlier call returned as they
\* were; the later call connects to the address set last, and its failure
\* reports the first output of the backoff set last
C14_SettersAffectLaterCallOnly == [][C14_Step]_vars

C14_Witness ==
    /\ last = "err"
    /\ strategySince >= 1 /\ Len(streak) = strategySince + 1
    /\ client.addr = "pool b"
    /\ setCalls >= 2
    /\ streak[strategySince].next_attempt_in # streak[strategySince + 1].next_attempt_in

\* C15: the Client never gives up: next() can always be called; its wait is
\* at most the next_attempt_in reported last (at most max of the backoff that
\* produced it); after the wait connect is attempted, and the attempt ends
\* in a Connection or an AttemptError, after any number of failures
C15_NeverGivesUp ==
    /\ ~panicked
    /\ pc = "idle" => ENABLED Call
    /\ pc = "delay"
          => /\ Len(streak) >= 1
             /\ wake - callAt <= Narrow(streak[Len(streak)].next_attempt_in)
             /\ Len(streak) > strategySince
                   => ~WideLess(client.backoff.max, streak[Len(streak)].next_attempt_in)
             /\ now >= wake => ENABLED Woken
    /\ pc = "connect"
          => /\ ENABLED ConnectOk
             /\ ~NextErr(client, now, overflow_checks).panic
             /\ client.retries < MaxRetries => ENABLED ConnectErr

C15_Witness ==
    /\ pc = "delay"
    /\ Len(streak) = MaxRetries
    /\ wake > now
    /\ streak[Len(streak)].next_attempt_in = client.backoff.max

\* C17: whenever next() reaches Connection::connect, start_time is Some, so
\* the unwrap of the failure branch does not panic, after any interleaving
\* of completed calls, dropped calls, set_addr and set_backoff
C17_StartTimeSetInFailureBranch ==
    /\ pc = "connect" => client.start_time # None
    /\ last # "panic"

C17_Witness ==
    /\ last = "err"
    /\ dropped
    /\ setCalls >= 2 /\ client.addr = "pool b" /\ strategySince >= 1
    /\ hadSuccess = "after failures"

(***************************************************************************)
(* A V2Codec on the read side of a Connection: bytes arrive from the peer  *)
(* in any chunking and decode is called on the buffer.                     *)
(***************************************************************************)
\* the byte values the peer sends: enough for the lengths 0, 1 and 2, for a
\* frame longer than the buffer and for a length field above MaxFrameLen
Bytes == {0, 1, 2, 128}

CodecInit ==
    /\ src = <<>> /\ state = None /\ decoded = [kind |-> "idle"] /\ presrc = <<>>
    /\ stream = <<>> /\ yielded = <<>>
    /\ dst = <<>> /\ predst = <<>> /\ encoded = None
    /\ panicked = FALSE
    /\ overflow_checks \in BOOLEAN
    /\ IdleBackoff
    /\ IdleClient

\* one more byte of the stream is read into the buffer
Receive ==
    /\ Len(src) < MaxBuf
    /\ Len(stream) < MaxStream
    /\ \E b \in Bytes : src' = Append(src, b) /\ stream' = Append(stream, b)
    /\ decoded' = [kind |-> "idle"]
    /\ presrc' = <<>>
    /\ UNCHANGED <<state, yielded, encodeVars, panicked, overflow_checks, backoffVars, clientVars>>

\* codec.decode(&mut src)
Decode ==
    /\ \E parses \in BOOLEAN :
          LET r == V2Decode(state, src, parses)
          IN  /\ decoded' = r.ret
              /\ state' = r.state
              /\ src' = r.buf
              /\ yielded' = IF r.ret.kind \in {"message", "parse error"}
                            THEN Append(yielded, r.ret.bytes) ELSE yielded
    /\ presrc' = src
    /\ UNCHANGED <<stream, encodeVars, panicked, overflow_checks, backoffVars, clientVars>>

CodecStep == Receive \/ Decode

CodecSpec == CodecInit /\ [][CodecStep]_vars

(***************************************************************************)
(* Claims about V2Codec                                                    *)
(***************************************************************************)
DecodeCalled == decoded.kind # "idle"

\* C10: decode returns Ok(None) and leaves the buffer as it was whenever
\* fewer than H bytes are buffered, or fewer than H + length bytes, length
\* being the 3-byte little-endian field at offset 1
C10_ShortBufferUntouched ==
    (/\ DecodeCalled
     /\ \/ Len(presrc) < HeaderSize
        \/ /\ Len(presrc) >= LengthFieldOffset + LengthFieldLength
           /\ Len(presrc) < HeaderSize + LengthField(presrc))
        => decoded.kind = "none" /\ src = presrc

\* the same for the length fields up to MaxFrameLen; above it decode
\* returns an error, and the buffer is left as it was all the same
C10_ShortBufferUntouchedBelowLimit ==
    (/\ DecodeCalled
     /\ \/ Len(presrc) < HeaderSize
        \/ /\ Len(presrc) >= LengthFieldOffset + LengthFieldLength
           /\ Len(presrc) < HeaderSize + LengthField(presrc))
        => /\ src = presrc
           /\ decoded.kind = IF /\ Len(presrc) >= LengthFieldOffset + LengthFieldLength
                                /\ LengthField(presrc) > MaxFrameLen
                             THEN "error" ELSE "none"

\* the frame at the head of the buffer before the last decode, and what follows it
HeadFrameLen == HeaderSize + LengthField(presrc)

HeadFrameBuffered ==
    /\ DecodeCalled
    /\ Len(presrc) >= HeaderSize
    /\ Len(presrc) >= HeadFrameLen

C16_ParseErrorConsumesFrame ==
    (DecodeCalled /\ decoded.kind = "parse error")
        => /\ Len(presrc) >= HeadFrameLen
           /\ Len(src) = Len(presrc) - HeadFrameLen
           /\ \A i \in 1..Len(src) : src[i] = presrc[HeadFrameLen + i]

C16_Witness ==
    /\ DecodeCalled
    /\ decoded.kind = "parse error"
    /\ src # <<>>

\* the frames of the wire format at the front of the bytes s: H + length
\* bytes each, up to the first one that is not complete
RECURSIVE WireFrames(_)
WireFrames(s) ==
    IF Len(s) < HeaderSize THEN <<>>
    ELSE LET total == HeaderSize + LengthField(s)
         IN  IF Len(s) < total THEN <<>>
             ELSE <<SubSeq(s, 1, total)>> \o WireFrames(SubSeqFrom(s, total))

RECURSIVE Flatten(_)
Flatten(ss) == IF ss = <<>> THEN <<>> ELSE Head(ss) \o Flatten(Tail(ss))

BytesUpTo(n) == UNION { [1..k -> Bytes] : k \in 0..n }

\* the TxFrames given to encode: any bytes, encode does not look at them
TxFrames == BytesUpTo(MaxFrame)

EncodeInit ==
    /\ dst \in BytesUpTo(1)
    /\ predst = <<>>
    /\ encoded = None
    /\ src = <<>> /\ state = None /\ decoded = [kind |-> "idle"] /\ presrc = <<>>
    /\ stream = <<>> /\ yielded = <<>>
    /\ panicked = FALSE
    /\ overflow_checks \in BOOLEAN
    /\ IdleBackoff
    /\ IdleClient

\* codec.encode(item, &mut dst)
Encode ==
    /\ \E item \in TxFrames :
          /\ Len(dst) + Len(item) <= MaxDst
          /\ LET r == V2Encode(item, dst)
             IN  /\ dst' = r.buf
                 /\ encoded' = Some([item |-> item, ret |-> r.ret])
    /\ predst' = dst
    /\ UNCHANGED <<src, state, decoded, presrc, stream, yielded,
                   panicked, overflow_checks, backoffVars, clientVars>>

EncodeStep == Encode

EncodeSpec == EncodeInit /\ [][EncodeStep]_vars

\* C13: encode returns Ok and leaves dst equal to what it held before
\* followed by the frame's bytes, nothing added, dropped or rewritten, for
\* every frame and every earlier content of dst
C13_EncodeAppendsVerbatim ==
    encoded # None
        => /\ Unwrap(encoded).ret = "ok"
           /\ Len(dst) = Len(predst) + Len(Unwrap(encoded).item)
           /\ \A i \in 1..Len(predst) : dst[i] = predst[i]
           /\ \A i \in 1..Len(Unwrap(encoded).item) :
                 dst[Len(predst) + i] = Unwrap(encoded).item[i]

C13_Witness ==
    /\ encoded # None
    /\ predst # <<>>
    /\ Len(Unwrap(encoded).item) = MaxFrame
    /\ Unwrap(encoded).item[1] # predst[1]

====
